---- MODULE Spec2Model ----
(***************************************************************************)
(* VenturaEngine: the Renderable base class (engine/core/renderable.ts)    *)
(* and the VentureBank actor (game/gameActors/ventureBank.ts).             *)
(*                                                                         *)
(* Three specifications share the variables:                               *)
(*   SpecRenderable  one Renderable, its transform and backend container   *)
(*   SpecBank        two banks on one event bus and one key-value store    *)
(*   SpecLayout      one bank's manager buttons: construction and load()   *)
(* Observable, Transform, the GameEvent bus, Engine.localStorage and Actor *)
(* are not part of the sources at hand; they are modelled from the         *)
(* written specification (synchronous notification in registration order). *)
(***************************************************************************)
EXTENDS Integers, Sequences, FiniteSets, TLC

\* ------------------------------------------------------------------ bounds
MaxVal == 1
MaxBalance == 2
MaxProfit == 1
MaxMultiplier == 2
MaxBusinesses == 3

\* --------------------------------------------------------------- constants
\* new Observable<number>(0) / getNumber("Balance", 0)
DefaultBalance == 0
\* new Observable<number>(1) / getNumber("GlobalProfitMultiplier", 1)
DefaultMultiplier == 1
\* balanceText.transform.position.set(10, 0): the y component
BalanceTextY == 0

VARIABLES
    \* ---- Renderable
    transform,          \* this.transform: position, scale, rotation
    container,          \* this.container: the backend's fields
    subscribers,        \* onComponentChanged subscriber list of each component
    containerDestroyed, \* container.destroy() has run
    destroyLog,         \* the releases made by destroy(), in call order
    syncLog,            \* the callbacks the last operation invoked, in order
    lastSet,            \* per component: the last value explicitly set, if any
    lastOp,             \* the last operation and its arguments
    \* ---- VentureBank
    balance,                \* balance[b]: this.balance
    globalProfitMultiplier, \* this.globalProfitMultiplier
    cycleSubscribers,       \* GameEvent.ON_CYCLE_COMPLETE: contexts in order
    bankDestroyed,          \* destroy() has run on bank b
    handlerCalls,           \* runs of b's handler during the last publish
    store,                  \* Engine.localStorage: key -> value or Absent
    lastSaved,              \* what the last save() of any bank wrote
    lastSavedBy,            \* what the last save() of bank b wrote
    \* ---- VentureBank layout
    businesses,         \* this._objectData.businesses: the names, in order
    children,           \* the bank's child actors (the buttons), in order
    managerButtons,     \* this.managerButtons: name -> index into children
    textY,              \* balanceText.transform.position.y
    loadInputs          \* what load() measured, or None before load()

renderVars == <<transform, container, subscribers, containerDestroyed,
                destroyLog, syncLog, lastSet>>
bankVars == <<balance, globalProfitMultiplier, cycleSubscribers, bankDestroyed,
              handlerCalls, store, lastSaved, lastSavedBy>>
layoutVars == <<businesses, children, managerButtons, textY, loadInputs>>
vars == <<renderVars, bankVars, layoutVars, lastOp>>

\* An optional value is a sequence of length at most one.
None == <<>>
Some(v) == <<v>>
Absent == None

\* ================================================================ Renderable
Vals == 0..MaxVal
Components == {"position", "scale", "rotation"}

\* new Transform(): position (0,0), scale (1,1), rotation z = 0
NewTransform ==
    [position |-> [x |-> 0, y |-> 0],
     scale    |-> [x |-> 1, y |-> 1],
     rotation |-> [z |-> 0]]

\* new PIXI.Container(): the backend's defaults
NewContainer ==
    [position |-> [x |-> 0, y |-> 0],
     scale    |-> [x |-> 1, y |-> 1],
     rotation |-> 0]

\* The three callbacks work on the pair (container, transform).
\* (variant: the y field is fed from x)
onPositionChanged_yFromX(st) ==
    [st EXCEPT !.container.position.x = st.transform.position.x,
               !.container.position.y = st.transform.position.x]

onPositionChanged(st) ==
    [st EXCEPT !.container.position.x = st.transform.position.x,
               !.container.position.y = st.transform.position.y]

\* (variant: the scale callback also writes the container's rotation)
onScaleChanged_touchesRotation(st) ==
    [st EXCEPT !.container.scale.x = st.transform.scale.x,
               !.container.scale.y = st.transform.scale.y,
               !.container.rotation = st.transform.scale.x]

onScaleChanged(st) ==
    [st EXCEPT !.container.scale.x = st.transform.scale.x,
               !.container.scale.y = st.transform.scale.y]

onRotationChanged(st) ==
    [st EXCEPT !.container.rotation = st.transform.rotation.z]

Callback(name, st) ==
    CASE name = "onPositionChanged" -> onPositionChanged(st)
      [] name = "onScaleChanged"    -> onScaleChanged(st)
      [] name = "onRotationChanged" -> onRotationChanged(st)

\* Renderable's constructor: one subscription per transform component.
RenderableSubscriptions ==
    [position |-> <<"onPositionChanged">>,
     scale    |-> <<"onScaleChanged">>,
     rotation |-> <<"onRotationChanged">>]

\* Observable notification: every subscriber, synchronously, in order.
RECURSIVE Notify(_, _)
Notify(subs, st) ==
    IF subs = <<>> THEN st
    ELSE Notify(Tail(subs), Callback(Head(subs), st))

\* A change of one transform component: the new value is stored, then the
\* component's subscribers run before the changing call returns.
Change(comp, value) ==
    LET set == [container |-> container,
                transform |-> [transform EXCEPT ![comp] = value]]
        after == Notify(subscribers[comp], set)
    IN  /\ transform' = after.transform
        /\ container' = after.container
        /\ syncLog' = subscribers[comp]
        /\ lastSet' = [lastSet EXCEPT ![comp] = Some(value)]
        /\ lastOp' = [op |-> "change", comp |-> comp, value |-> value]
        /\ UNCHANGED <<subscribers, containerDestroyed, destroyLog>>
        /\ UNCHANGED <<bankVars, layoutVars>>

SetPosition(x, y) == Change("position", [x |-> x, y |-> y])
SetScale(x, y) == Change("scale", [x |-> x, y |-> y])
SetRotation(z) == Change("rotation", [z |-> z])

\* Transform.destroy(): releases the three subscriber lists.
TransformDestroy == [c \in Components |-> <<>>]

\* (variant: the transform is released before the container)
destroy_transformFirst ==
    /\ ~containerDestroyed
    /\ containerDestroyed' = TRUE
    /\ subscribers' = TransformDestroy
    /\ destroyLog' = destroyLog \o <<"transform", "container">>
    /\ syncLog' = <<>>
    /\ lastOp' = [op |-> "destroy"]
    /\ UNCHANGED <<transform, container, lastSet>>
    /\ UNCHANGED <<bankVars, layoutVars>>

\* Renderable.destroy(): the container first, the transform second. Callers
\* call it at most once.
destroy ==
    /\ ~containerDestroyed
    /\ containerDestroyed' = TRUE
    /\ subscribers' = TransformDestroy
    /\ destroyLog' = destroyLog \o <<"container", "transform">>
    /\ syncLog' = <<>>
    /\ lastOp' = [op |-> "destroy"]
    /\ UNCHANGED <<transform, container, lastSet>>
    /\ UNCHANGED <<bankVars, layoutVars>>

InitRenderable ==
    /\ transform = NewTransform
    /\ container = NewContainer
    /\ subscribers = RenderableSubscriptions
    /\ containerDestroyed = FALSE
    /\ destroyLog = <<>>
    /\ syncLog = <<>>
    /\ lastSet = [c \in Components |-> None]

NextRenderable ==
    \/ \E x \in Vals, y \in Vals : SetPosition(x, y)
    \/ \E x \in Vals, y \in Vals : SetScale(x, y)
    \/ \E z \in Vals : SetRotation(z)
    \/ destroy

\* =============================================================== VentureBank
Banks == {"A", "B"}
Profits == 0..MaxProfit
Multipliers == 1..MaxMultiplier
Keys == {"Balance", "GlobalProfitMultiplier"}

\* Observable<number>.adjust(delta): setValue(getValue() + delta)
Adjust(value, delta) == value + delta

\* Engine.localStorage.setValue(key, value)
setValue(st, key, value) == [st EXCEPT ![key] = Some(value)]

\* Engine.localStorage.getNumber(key, default)
getNumber(st, key, default) == IF st[key] = Absent THEN default ELSE st[key][1]

\* The constructor's subscription on the cycle-complete event, context b.
constructorSubscribe(subs, b) == Append(subs, b)

\* (variant: the handler adjusts the balance twice)
onCycleComplete_twice(bs, b, profit) ==
    [bs EXCEPT !.balance[b] = Adjust(Adjust(bs.balance[b], profit), profit),
               !.calls[b] = bs.calls[b] + 1]

\* The subscribed handler of bank b: this.balance.adjust(business.profit).
onCycleComplete(bs, b, profit) ==
    [bs EXCEPT !.balance[b] = Adjust(bs.balance[b], profit),
               !.calls[b] = bs.calls[b] + 1]

\* GameEvent publish: every subscribed handler, synchronously, in order.
RECURSIVE PublishTo(_, _, _)
PublishTo(subs, bs, profit) ==
    IF subs = <<>> THEN bs
    ELSE PublishTo(Tail(subs), onCycleComplete(bs, Head(subs), profit), profit)

\* A business completes a cycle somewhere in the actor tree.
Publish(profit) ==
    LET after == PublishTo(cycleSubscribers,
                           [balance |-> balance, calls |-> [b \in Banks |-> 0]],
                           profit)
    IN  /\ \A b \in Banks : balance[b] + profit <= MaxBalance
        /\ balance' = after.balance
        /\ handlerCalls' = after.calls
        /\ lastOp' = [op |-> "publish", profit |-> profit]
        /\ UNCHANGED <<globalProfitMultiplier, cycleSubscribers, bankDestroyed,
                       store, lastSaved, lastSavedBy>>
        /\ UNCHANGED <<renderVars, layoutVars>>

\* The multiplier is a public Observable: game code sets it.
SetMultiplier(b, m) ==
    /\ ~bankDestroyed[b]
    /\ globalProfitMultiplier' = [globalProfitMultiplier EXCEPT ![b] = m]
    /\ lastOp' = [op |-> "setMultiplier", bank |-> b]
    /\ UNCHANGED <<balance, cycleSubscribers, bankDestroyed, handlerCalls,
                   store, lastSaved, lastSavedBy>>
    /\ UNCHANGED <<renderVars, layoutVars>>

\* (variant: the two values are written under each other's key)
save_keysSwapped(b) ==
    /\ ~bankDestroyed[b]
    /\ store' = setValue(setValue(store, "GlobalProfitMultiplier", balance[b]),
                         "Balance", globalProfitMultiplier[b])
    /\ lastSaved' = Some([balance |-> balance[b],
                          multiplier |-> globalProfitMultiplier[b]])
    /\ lastSavedBy' = [lastSavedBy EXCEPT ![b] = lastSaved']
    /\ lastOp' = [op |-> "save", bank |-> b]
    /\ UNCHANGED <<balance, globalProfitMultiplier, cycleSubscribers,
                   bankDestroyed, handlerCalls>>
    /\ UNCHANGED <<renderVars, layoutVars>>

\* (variant: the multiplier is not written)
save_balanceOnly(b) ==
    /\ ~bankDestroyed[b]
    /\ store' = setValue(store, "Balance", balance[b])
    /\ lastSaved' = Some([balance |-> balance[b],
                          multiplier |-> globalProfitMultiplier[b]])
    /\ lastSavedBy' = [lastSavedBy EXCEPT ![b] = lastSaved']
    /\ lastOp' = [op |-> "save", bank |-> b]
    /\ UNCHANGED <<balance, globalProfitMultiplier, cycleSubscribers,
                   bankDestroyed, handlerCalls>>
    /\ UNCHANGED <<renderVars, layoutVars>>

\* VentureBank.save()
save(b) ==
    /\ ~bankDestroyed[b]
    /\ store' = setValue(setValue(store, "Balance", balance[b]),
                         "GlobalProfitMultiplier", globalProfitMultiplier[b])
    /\ lastSaved' = Some([balance |-> balance[b],
                          multiplier |-> globalProfitMultiplier[b]])
    /\ lastSavedBy' = [lastSavedBy EXCEPT ![b] = lastSaved']
    /\ lastOp' = [op |-> "save", bank |-> b]
    /\ UNCHANGED <<balance, globalProfitMultiplier, cycleSubscribers,
                   bankDestroyed, handlerCalls>>
    /\ UNCHANGED <<renderVars, layoutVars>>

\* (variant: a missing multiplier falls back to 0)
restore_multiplierDefaultZero(b) ==
    /\ ~bankDestroyed[b]
    /\ balance' = [balance EXCEPT
                     ![b] = getNumber(store, "Balance", DefaultBalance)]
    /\ globalProfitMultiplier' = [globalProfitMultiplier EXCEPT
                     ![b] = getNumber(store, "GlobalProfitMultiplier", 0)]
    /\ lastOp' = [op |-> "restore", bank |-> b]
    /\ UNCHANGED <<cycleSubscribers, bankDestroyed, handlerCalls, store,
                   lastSaved, lastSavedBy>>
    /\ UNCHANGED <<renderVars, layoutVars>>

\* VentureBank.restore()
restore(b) ==
    /\ ~bankDestroyed[b]
    /\ balance' = [balance EXCEPT
                     ![b] = getNumber(store, "Balance", DefaultBalance)]
    /\ globalProfitMultiplier' = [globalProfitMultiplier EXCEPT
                     ![b] = getNumber(store, "GlobalProfitMultiplier",
                                      DefaultMultiplier)]
    /\ lastOp' = [op |-> "restore", bank |-> b]
    /\ UNCHANGED <<cycleSubscribers, bankDestroyed, handlerCalls, store,
                   lastSaved, lastSavedBy>>
    /\ UNCHANGED <<renderVars, layoutVars>>

\* destroy() of a bank: VentureBank declares none, so it is the inherited
\* Renderable.destroy(), which releases the bank's container and transform.
destroyBank(b) ==
    /\ ~bankDestroyed[b]
    /\ bankDestroyed' = [bankDestroyed EXCEPT ![b] = TRUE]
    /\ lastOp' = [op |-> "destroyBank", bank |-> b]
    /\ UNCHANGED <<balance, globalProfitMultiplier, cycleSubscribers,
                   handlerCalls, store, lastSaved, lastSavedBy>>
    /\ UNCHANGED <<renderVars, layoutVars>>

Optional(S) == {None} \cup {Some(v) : v \in S}

StoreStates ==
    { [k \in Keys |-> IF k = "Balance" THEN bal ELSE mult] :
        bal \in Optional(0..MaxBalance), mult \in Optional(Multipliers) }

\* Two banks constructed in turn, A then B, over whatever an earlier session
\* left in the store.
InitBank ==
    /\ balance = [b \in Banks |-> Adjust(DefaultBalance, 0)]
    /\ globalProfitMultiplier = [b \in Banks |-> DefaultMultiplier]
    /\ cycleSubscribers = constructorSubscribe(constructorSubscribe(<<>>, "A"), "B")
    /\ bankDestroyed = [b \in Banks |-> FALSE]
    /\ handlerCalls = [b \in Banks |-> 0]
    /\ store \in StoreStates
    /\ lastSaved = None
    /\ lastSavedBy = [b \in Banks |-> None]

NextBank ==
    \/ \E p \in Profits : Publish(p)
    \/ \E b \in Banks, m \in Multipliers : SetMultiplier(b, m)
    \/ \E b \in Banks : save(b)
    \/ \E b \in Banks : restore(b)
    \/ \E b \in Banks : destroyBank(b)

\* ======================================================== VentureBank layout
\* JavaScript numbers are modelled as exact rationals n/d in lowest terms with
\* d > 0 (IEEE-754 rounding is not tracked); divisors are never zero here.
Abs(n) == IF n < 0 THEN -n ELSE n

RECURSIVE GCD(_, _)
GCD(a, b) == IF b = 0 THEN a ELSE GCD(b, a % b)

Rat(n, d) ==
    LET g == GCD(Abs(n), Abs(d))
        sgn == IF d < 0 THEN -1 ELSE 1
    IN  [n |-> sgn * (n \div g), d |-> sgn * (d \div g)]

RInt(i) == [n |-> i, d |-> 1]
RAdd(p, q) == Rat(p.n * q.d + q.n * p.d, p.d * q.d)
RSub(p, q) == Rat(p.n * q.d - q.n * p.d, p.d * q.d)
RMul(p, q) == Rat(p.n * q.n, p.d * q.d)
RDiv(p, q) == Rat(p.n * q.d, p.d * q.n)

Names == {"Lemonade", "Newspaper", "CarWash"}
WindowHeights == {80, 400, 680}
TextHeights == {80, 100}
ButtonHeights == {100, 200}
TextYs == {0, 20}

RECURSIVE SeqsUpTo(_, _)
SeqsUpTo(S, n) ==
    IF n = 0 THEN {<<>>}
    ELSE LET shorter == SeqsUpTo(S, n - 1)
         IN  shorter \cup {Append(q, x) : q \in shorter, x \in S}

\* The business configs the bank can be given: at least one entry.
BusinessLists == SeqsUpTo(Names, MaxBusinesses) \ {<<>>}

\* new Button(managerButtonData) with its three display components attached;
\* a new actor's transform has scale 1 and position y = 0.
NewButton(name) ==
    [name |-> name,
     components |-> <<<<name, "ManagerIcon">>, <<name, "ManagerButton">>,
                      <<name, "ManagerPrice">>>>,
     scale |-> RInt(1),
     y |-> RInt(0)]

\* (variant: a button whose name is already stored is not added as a child)
createManagerButton_skipsKnownName(st, name) ==
    LET kids == IF name \in DOMAIN st.managerButtons THEN st.children
                ELSE Append(st.children, NewButton(name))
    IN  [children |-> kids,
         managerButtons |-> (name :> Len(kids)) @@ st.managerButtons]

\* One iteration of createManagerButtons: make the button, store it under
\* the business's name and add it as a child.
createManagerButton(st, name) ==
    LET kids == Append(st.children, NewButton(name))
    IN  [children |-> kids,
         managerButtons |-> (name :> Len(kids)) @@ st.managerButtons]

RECURSIVE createManagerButtonsFrom(_, _)
createManagerButtonsFrom(st, bs) ==
    IF bs = <<>> THEN st
    ELSE createManagerButtonsFrom(createManagerButton(st, Head(bs)), Tail(bs))

\* VentureBank.createManagerButtons(), from this.managerButtons = {} and no
\* children.
createManagerButtons(bs) ==
    createManagerButtonsFrom([children |-> <<>>, managerButtons |-> <<>>], bs)

\* (variant: the spawn height advances before the button is placed)
layoutButton_advancesFirst(st, name, scaleFactor, heightPerButton) ==
    LET i == managerButtons[name]
        next == RAdd(st.spawnHeight, heightPerButton)
    IN  [kids |-> [st.kids EXCEPT ![i].scale = scaleFactor, ![i].y = next],
         spawnHeight |-> next]

\* One iteration of load()'s loop: the button found under the business's
\* name gets the scale and the current spawn height, which then advances.
layoutButton(st, name, scaleFactor, heightPerButton) ==
    LET i == managerButtons[name]
    IN  [kids |-> [st.kids EXCEPT ![i].scale = scaleFactor,
                                 ![i].y = st.spawnHeight],
         spawnHeight |-> RAdd(st.spawnHeight, heightPerButton)]

RECURSIVE layoutFrom(_, _, _, _)
layoutFrom(st, bs, scaleFactor, heightPerButton) ==
    IF bs = <<>> THEN st
    ELSE layoutFrom(layoutButton(st, Head(bs), scaleFactor, heightPerButton),
                    Tail(bs), scaleFactor, heightPerButton)

\* VentureBank.load(): innerHeight is window.innerHeight, textHeight is
\* balanceText.container.height and buttonHeight is the container height of
\* the button stored under the first business's name. Called once.
load(innerHeight, textHeight, buttonHeight) ==
    LET startingHeight == RAdd(RInt(textY), RInt(textHeight))
        availableRoom == RSub(RInt(innerHeight), startingHeight)
        heightPerButton == RDiv(availableRoom, RInt(Len(businesses)))
        scaleFactor == RDiv(heightPerButton, RInt(buttonHeight))
        after == layoutFrom([kids |-> children, spawnHeight |-> startingHeight],
                            businesses, scaleFactor, heightPerButton)
    IN  /\ loadInputs = None
        /\ children' = after.kids
        /\ loadInputs' = Some([innerHeight |-> innerHeight,
                               textHeight |-> textHeight,
                               buttonHeight |-> buttonHeight,
                               textY |-> textY])
        /\ lastOp' = [op |-> "load"]
        /\ UNCHANGED <<businesses, managerButtons, textY>>
        /\ UNCHANGED <<renderVars, bankVars>>

\* balanceText's transform is public: its y can be moved before load().
MoveBalanceText(y) ==
    /\ loadInputs = None
    /\ textY' = y
    /\ lastOp' = [op |-> "moveBalanceText"]
    /\ UNCHANGED <<businesses, children, managerButtons, loadInputs>>
    /\ UNCHANGED <<renderVars, bankVars>>

\* The bank as constructed from a business config.
InitLayout(configs) ==
    /\ businesses \in configs
    /\ children = createManagerButtons(businesses).children
    /\ managerButtons = createManagerButtons(businesses).managerButtons
    /\ textY = BalanceTextY
    /\ loadInputs = None

NextLayout ==
    \/ \E H \in WindowHeights, h \in TextHeights, g \in ButtonHeights :
          load(H, h, g)
    \/ \E y \in TextYs : MoveBalanceText(y)

\* ============================================================ specifications
EmptyStore == [k \in Keys |-> Absent]
OneConfig == {<<"Lemonade">>}

InitCommon == InitRenderable /\ InitBank /\ lastOp = [op |-> "init"]

\* One Renderable under its host's calls; the banks stay as constructed.
InitOfRenderable == InitCommon /\ store = EmptyStore /\ InitLayout(OneConfig)
SpecRenderable == InitOfRenderable /\ [][NextRenderable]_vars

\* Two banks over any store an earlier session may have left.
InitOfBank == InitCommon /\ InitLayout(OneConfig)
SpecBank == InitOfBank /\ [][NextBank]_vars

\* One bank constructed from any business config, then loaded.
InitOfLayout == InitCommon /\ store = EmptyStore /\ InitLayout(BusinessLists)
SpecLayout == InitOfLayout /\ [][NextLayout]_vars

\* ==================================================================== claims
\* The callback the constructor subscribes to each transform component.
SyncOf(comp) ==
    CASE comp = "position" -> "onPositionChanged"
      [] comp = "scale"    -> "onScaleChanged"
      [] comp = "rotation" -> "onRotationChanged"

\* The container fields of a component hold the value v of that component.
Holds(cont, comp, v) ==
    CASE comp = "position" -> cont.position.x = v.x /\ cont.position.y = v.y
      [] comp = "scale"    -> cont.scale.x = v.x /\ cont.scale.y = v.y
      [] comp = "rotation" -> cont.rotation = v.z

\* A step that is a change of a transform component.
ChangeStep == lastOp'.op = "change" /\ vars' # vars

\* C2: before destroy, every change of the transform's position, scale or
\* rotation runs exactly one synchronization callback, the component's own,
\* and when the change returns the container holds the new values; so the
\* container mirrors the last value set of every component that was set.
C2_ChangeSyncsOnce ==
    /\ [](~containerDestroyed =>
            \A c \in Components :
                lastSet[c] # None =>
                    /\ transform[c] = lastSet[c][1]
                    /\ Holds(container, c, lastSet[c][1]))
    /\ [][(ChangeStep /\ ~containerDestroyed) =>
            /\ syncLog' = <<SyncOf(lastOp'.comp)>>
            /\ transform'[lastOp'.comp] = lastOp'.value
            /\ Holds(container', lastOp'.comp, lastOp'.value)]_vars

\* C2 witness: position.x was set to 1 on a live Renderable (the container
\* starts at 0), one callback ran and the container now holds 1.
C2_Witness ==
    /\ ~containerDestroyed
    /\ lastOp.op = "change" /\ lastOp.comp = "position"
    /\ lastOp.value.x = 1
    /\ container.position.x = 1
    /\ syncLog = <<"onPositionChanged">>

\* C8: every destroy() releases the container and then the transform, each
\* exactly once.
C8_DestroyOrder ==
    [][(lastOp'.op = "destroy" /\ vars' # vars) =>
          /\ Len(destroyLog') = Len(destroyLog) + 2
          /\ SubSeq(destroyLog', 1, Len(destroyLog)) = destroyLog
          /\ destroyLog'[Len(destroyLog) + 1] = "container"
          /\ destroyLog'[Len(destroyLog) + 2] = "transform"]_vars

\* C8 witness: destroy() has run on a Renderable whose transform had been
\* changed.
C8_Witness ==
    /\ lastOp.op = "destroy"
    /\ containerDestroyed
    /\ destroyLog # <<>>
    /\ lastSet["scale"] # None

\* C9: a change of one component leaves the container fields of the other
\* two components as they were, leaves the transform holding exactly the
\* value set (the other components untouched) and changes nothing else of
\* the Renderable or of any other object.
C9_SyncFrame ==
    [][ChangeStep =>
          /\ \A d \in Components \ {lastOp'.comp} :
                /\ container'[d] = container[d]
                /\ transform'[d] = transform[d]
          /\ transform'[lastOp'.comp] = lastOp'.value
          /\ UNCHANGED <<subscribers, containerDestroyed, destroyLog>>
          /\ UNCHANGED <<bankVars, layoutVars>>]_vars

\* C9 witness: a scale change arrived while the container's position and
\* rotation were off their defaults, and both are still as they were.
C9_Witness ==
    /\ lastOp.op = "change" /\ lastOp.comp = "scale"
    /\ ~containerDestroyed
    /\ container.scale.x = 0
    /\ container.position.x = 1 /\ container.position.y = 1
    /\ container.rotation = 1

\* A step that is a publish of the cycle-complete event.
PublishStep == lastOp'.op = "publish" /\ vars' # vars

\* A step that is a restore() of the bank lastOp'.bank.
RestoreStep == lastOp'.op = "restore" /\ vars' # vars

\* C1: one publish carrying profit p runs the handler of every live bank
\* exactly once and leaves that bank's balance at its old balance plus p.
C1_PublishAddsProfitOnce ==
    [][PublishStep =>
          \A b \in Banks :
              ~bankDestroyed[b] =>
                  /\ handlerCalls'[b] = 1
                  /\ balance'[b] = balance[b] + lastOp'.profit]_vars

\* C1 witness: a publish with profit 1 has just taken live bank A from
\* balance 1 to balance 2 in one handler run.
C1_Witness ==
    /\ lastOp.op = "publish" /\ lastOp.profit = 1
    /\ ~bankDestroyed["A"]
    /\ handlerCalls["A"] = 1
    /\ balance["A"] = 2

\* C3: restore() after a save() yields the balance and the multiplier that
\* the most recent save() wrote, whatever the restoring bank held before.
C3_SaveRestoreRoundTrip ==
    [][(RestoreStep /\ lastSaved # None) =>
          /\ balance'[lastOp'.bank] = lastSaved[1].balance
          /\ globalProfitMultiplier'[lastOp'.bank] = lastSaved[1].multiplier]_vars

\* C3 witness: a bank that never saved has restored a non-default balance
\* and multiplier that the other bank saved.
C3_Witness ==
    /\ lastOp.op = "restore"
    /\ lastSaved # None
    /\ lastSavedBy[lastOp.bank] = None
    /\ lastSaved[1].balance = 2 /\ lastSaved[1].multiplier = 2
    /\ balance[lastOp.bank] = 2
    /\ globalProfitMultiplier[lastOp.bank] = 2

\* C4: restore() sets the balance to 0 when the store has no "Balance" and
\* the multiplier to 1 when it has no "GlobalProfitMultiplier", and takes
\* the stored value of a key that is present.
C4_RestoreDefaults ==
    [][RestoreStep =>
          /\ balance'[lastOp'.bank] =
                IF store["Balance"] = Absent THEN 0 ELSE store["Balance"][1]
          /\ globalProfitMultiplier'[lastOp'.bank] =
                IF store["GlobalProfitMultiplier"] = Absent THEN 1
                ELSE store["GlobalProfitMultiplier"][1]]_vars

\* C4 witness: a bank holding a balance restored from a store with only
\* one of the keys and got the default for the other.
C4_Witness ==
    /\ lastOp.op = "restore"
    /\ \/ /\ store["Balance"] = Absent
          /\ store["GlobalProfitMultiplier"] = Some(2)
          /\ balance[lastOp.bank] = 0
          /\ globalProfitMultiplier[lastOp.bank] = 2
       \/ /\ store["Balance"] = Some(2)
          /\ store["GlobalProfitMultiplier"] = Absent
          /\ balance[lastOp.bank] = 2
          /\ globalProfitMultiplier[lastOp.bank] = 1

\* C6: once an object is destroyed none of its listeners runs: a change of
\* a destroyed Renderable's transform invokes no callback and leaves the
\* container alone, and a publish neither runs a destroyed bank's handler
\* nor changes its balance.
C6_NoListenerAfterDestroy ==
    [][/\ (ChangeStep /\ containerDestroyed) =>
              (syncLog' = <<>> /\ container' = container)
       /\ PublishStep =>
              \A b \in Banks :
                  bankDestroyed[b] =>
                      (handlerCalls'[b] = 0 /\ balance'[b] = balance[b])]_vars

\* C7 as stated: the persisted values are scoped per bank, so restore() of a
\* bank yields what that bank itself last saved.
C7_ScopedPerInstance ==
    [][(RestoreStep /\ lastSavedBy[lastOp'.bank] # None) =>
          /\ balance'[lastOp'.bank] = lastSavedBy[lastOp'.bank][1].balance
          /\ globalProfitMultiplier'[lastOp'.bank] =
                lastSavedBy[lastOp'.bank][1].multiplier]_vars

\* C7 amended: the two keys are fixed names shared by all banks, so after
\* any save() the store holds exactly the pair written by the most recent
\* save() of any bank, and that is what every bank's restore() reads.
C7_SharedKeys ==
    lastSaved # None =>
        /\ store["Balance"] = Some(lastSaved[1].balance)
        /\ store["GlobalProfitMultiplier"] = Some(lastSaved[1].multiplier)

\* C7 witness: B saved, A saved other values afterwards, and B's restore()
\* has just read A's values.
C7_Witness ==
    /\ lastOp.op = "restore" /\ lastOp.bank = "B"
    /\ lastSavedBy["B"] # None /\ lastSavedBy["A"] # None
    /\ lastSaved = lastSavedBy["A"]
    /\ lastSavedBy["B"] # lastSavedBy["A"]
    /\ globalProfitMultiplier["B"] = lastSavedBy["A"][1].multiplier
    /\ globalProfitMultiplier["B"] # lastSavedBy["B"][1].multiplier

\* ---- layout
N == Len(businesses)
Loaded == loadInputs # None
In == loadInputs[1]

\* What the claim calls t + h, the slot, and the scale factor.
Start == In.textY + In.textHeight
Slot == RDiv(RInt(In.innerHeight - Start), RInt(N))
Factor == RDiv(Slot, RInt(In.buttonHeight))
SlotY(i) == RAdd(RInt(Start), RMul(RInt(i), Slot))

\* The button stored under the name of the business at (1-based) position i.
ButtonOf(i) == children[managerButtons[businesses[i]]]

\* The last position at which the name of the business at position i occurs.
LastOf(i) ==
    CHOOSE j \in 1..N :
        /\ businesses[j] = businesses[i]
        /\ \A k \in (j + 1)..N : businesses[k] # businesses[i]

DistinctNames == \A i, j \in 1..N : businesses[i] = businesses[j] => i = j

IsExample ==
    /\ Loaded /\ N = 3 /\ DistinctNames
    /\ In = [innerHeight |-> 680, textHeight |-> 80, buttonHeight |-> 200,
             textY |-> 0]

====
